---------------------------- MODULE Spec2Model ----------------------------
(***************************************************************************)
(* The E-Commerce API of main.py as a state machine.                       *)
(*                                                                         *)
(* The store is the pair of collections db["product"] and db["order"].     *)
(* FastAPI runs every `def` handler on a worker thread, so requests        *)
(* overlap; a handler that touches the store more than once (seed_products,*)
(* create_order) is split at its store operations, each of which is one    *)
(* atomic step.  Handlers that touch the store once are one step.          *)
(*                                                                         *)
(* Strings that the code inspects (identifiers, error details) are         *)
(* sequences of one-character or token strings; an ObjectId is the number  *)
(* its bytes encode, and str()/ObjectId() convert between the two by hex   *)
(* digits.  The 24-digit identifier is scaled to IdLen digits.             *)
(***************************************************************************)
EXTENDS Integers, Sequences, FiniteSets, TLC

\* ---------------------------------------------------------------- bounds
\* Number of hex digits of an identifier string (24 in bson, scaled down).
IdLen == 2
\* The first ObjectId the store hands out.
FirstId == 10
\* The store operations that the store-changing requests of a run may add up to,
\* answered or in flight: one for a create product, one for a seed, one for each
\* line item of a create order and one for its insert.
MaxWork == 4
\* Longest list of line items of an order request.
MaxItems == 2

\* list_products / list_orders: `limit: int = 50`
DefaultLimit == 50

Threads == {"w1", "w2"}

VARIABLES
    db,        \* TRUE when the process-wide handle `db` is not None
    product,   \* db["product"]: sequence of documents, insertion order
    order,     \* db["order"]
    nextId,    \* the ObjectId the store assigns next
    pc,        \* per worker thread: the handler it is inside, or "idle"
    req,       \* per worker thread: the Order that create_order is handling
    pos,       \* per worker thread: create_order's position in order.items
    resolved,  \* per worker thread: whether every item of req resolved when it arrived
    response,  \* the response most recently sent
    seedLog    \* the answered seed requests, in the order they were answered

vars == <<db, product, order, nextId, pc, req, pos, resolved, response, seedLog>>

\* ------------------------------------------------------------ identifiers
HexDigits == <<"0","1","2","3","4","5","6","7","8","9","a","b","c","d","e","f">>
UpperHexDigits == <<"0","1","2","3","4","5","6","7","8","9","A","B","C","D","E","F">>

InvalidId == -1

RECURSIVE Pow16(_)
Pow16(n) == IF n = 0 THEN 1 ELSE 16 * Pow16(n - 1)

\* int(c, 16) for one character, -1 when c is no hex digit
HexValue(c) ==
    LET lower == {k \in 1..16 : HexDigits[k] = c}
        upper == {k \in 1..16 : UpperHexDigits[k] = c}
    IN  IF lower # {} THEN (CHOOSE k \in lower : TRUE) - 1
        ELSE IF upper # {} THEN (CHOOSE k \in upper : TRUE) - 1
        ELSE -1

RECURSIVE FromHex(_)
FromHex(s) ==
    IF s = <<>> THEN 0
    ELSE 16 * FromHex(SubSeq(s, 1, Len(s) - 1)) + HexValue(s[Len(s)])

\* str(oid): the lower-case hex digits of an ObjectId
str(oid) == [k \in 1..IdLen |-> HexDigits[((oid \div Pow16(IdLen - k)) % 16) + 1]]

\* ObjectId(s): the identifier a string denotes, InvalidId (bson.errors.InvalidId)
\* unless s is exactly IdLen hex digits of either case
ObjectId(s) ==
    IF Len(s) = IdLen /\ \A k \in 1..Len(s) : HexValue(s[k]) >= 0
    THEN FromHex(s)
    ELSE InvalidId

\* A well-formed identifier no document ever gets: the largest one.
AbsentId == Pow16(IdLen) - 1

Upper(s) == [k \in 1..Len(s) |-> UpperHexDigits[HexValue(s[k]) + 1]]

\* ------------------------------------------------------------- documents
\* None, and the empty dict: what `not doc` accepts
None == <<>>
Falsy(doc) == DOMAIN doc = {}

WithId(doc, oid) == [k \in DOMAIN doc \cup {"_id"} |-> IF k = "_id" THEN oid ELSE doc[k]]
WithoutId(doc) == [k \in DOMAIN doc \ {"_id"} |-> doc[k]]

\* serialize_doc without the rename: the stored document as it is
serialize_doc_keeps_id(doc) == doc

\* serialize_doc: a copy of doc with "_id" replaced by the public string "id"
serialize_doc(doc) ==
    IF Falsy(doc) THEN doc
    ELSE IF "_id" \in DOMAIN doc
    THEN [k \in (DOMAIN doc \ {"_id"}) \cup {"id"} |->
             IF k = "id" THEN str(doc["_id"]) ELSE doc[k]]
    ELSE doc

\* collection.find_one({"_id": oid})
find_one(coll, oid) ==
    IF \E k \in 1..Len(coll) : coll[k]["_id"] = oid
    THEN coll[CHOOSE k \in 1..Len(coll) :
                 /\ coll[k]["_id"] = oid
                 /\ \A j \in 1..(k - 1) : coll[j]["_id"] # oid]
    ELSE None

\* collection.count_documents({})
count_documents(coll) == Len(coll)

RECURSIVE insert_many(_, _, _)
\* collection.insert_many(docs): the documents in order, each with a fresh _id
insert_many(coll, docs, oid) ==
    IF docs = <<>> THEN coll
    ELSE insert_many(Append(coll, WithId(Head(docs), oid)), Tail(docs), oid + 1)

Matches(doc, filter_dict) ==
    \A k \in DOMAIN filter_dict : k \in DOMAIN doc /\ doc[k] = filter_dict[k]

\* database.get_documents(collection_name, filter_dict, limit)
get_documents(coll, filter_dict, limit) ==
    LET Test(d) == Matches(d, filter_dict)
        hits == SelectSeq(coll, Test)
    IN  SubSeq(hits, 1, IF Len(hits) < limit THEN Len(hits) ELSE limit)

\* ------------------------------------------------ outcomes of a try body
Return(status, body) == [raised |-> "none", status |-> status, body |-> body]
HTTPException(status, detail) ==
    [raised |-> "HTTPException", status |-> status, body |-> [detail |-> detail]]
Raise(detail) == [raised |-> "Exception", status |-> 0, body |-> [detail |-> detail]]
\* the loop of create_order goes on to its next item
Continue == [raised |-> "continue", status |-> 0, body |-> [detail |-> <<>>]]

\* except HTTPException: raise / except Exception as e: raise HTTPException(500, str(e))
ExceptHTTPException(out) ==
    IF out.raised = "Exception" THEN HTTPException(500, out.body.detail) ELSE out

\* except Exception as e: raise HTTPException(500, str(e))   (HTTPException is an Exception)
ExceptException(out) ==
    IF out.raised = "Exception" THEN HTTPException(500, out.body.detail)
    ELSE IF out.raised = "HTTPException"
    THEN HTTPException(500, <<out.status, ": ">> \o out.body.detail)
    ELSE out

DatabaseNotAvailable == <<"Database not available">>
NoneTypeNotSubscriptable == <<"'NoneType' object is not subscriptable">>
InvalidIdMessage(s) ==
    <<"'">> \o s \o <<"' is not a valid ObjectId, it must be a 12-byte input or a 24-character hex string">>
InvalidProductId(s) == <<"Invalid product ID: ">> \o s
ProductNotFound == <<"Product not found">>

\* ---------------------------------------------------------------- inputs
Mug == [title |-> "Mug", price |-> 349, category |-> "Home", in_stock |-> TRUE]
ProductInputs == {Mug}

\* the `products` list of seed_products
SeedDataset == <<
    [title |-> "Classic White T-Shirt",
     description |-> "100% cotton, breathable, and perfect for everyday wear.",
     price |-> 699, category |-> "Apparel",
     image |-> "https://images.unsplash.com/photo-1520975916090-3105956dac38?w=800",
     in_stock |-> TRUE],
    [title |-> "Wireless Headphones",
     description |-> "Noise-cancelling over-ear headphones with 30h battery life.",
     price |-> 4999, category |-> "Electronics",
     image |-> "https://images.unsplash.com/photo-1518449037270-557fef82de76?w=800",
     in_stock |-> TRUE],
    [title |-> "Ceramic Coffee Mug",
     description |-> "Handmade mug with matte finish and 350ml capacity.",
     price |-> 349, category |-> "Home",
     image |-> "https://images.unsplash.com/photo-1523942839745-7848d4a7aa89?w=800",
     in_stock |-> TRUE],
    [title |-> "Running Shoes",
     description |-> "Lightweight shoes designed for comfort and performance.",
     price |-> 2999, category |-> "Footwear",
     image |-> "https://images.unsplash.com/photo-1542291026-7eec264c27ff?w=800",
     in_stock |-> TRUE] >>

\* Identifier strings a client sends: the first identifier the store hands out in
\* lower and in upper case, a well-formed one that no document has, one that is
\* too short and one with a character that is no hex digit.
TooShort == Tail(str(FirstId))
NotHex == [k \in 1..IdLen |-> "z"]
OrderIdStrings == {Upper(str(FirstId)), str(AbsentId), NotHex}
IdStrings == OrderIdStrings \cup {str(FirstId), str(FirstId + 1), TooShort}

ItemInputs == {[product_id |-> s, quantity |-> 1] : s \in OrderIdStrings}
OrderInputs == {[items |-> its] : its \in UNION {[1..n -> ItemInputs] : n \in 0..MaxItems}}

\* `if category`: None and "" both mean no filter
Categories == {"", "Home"}
Limits == {DefaultLimit}

\* ----------------------------------------------------------------- state
NoRequest == [items |-> <<>>]

Init ==
    /\ db \in BOOLEAN
    /\ product = <<>>
    /\ order = <<>>
    /\ nextId = FirstId
    /\ pc = [t \in Threads |-> "idle"]
    /\ req = [t \in Threads |-> NoRequest]
    /\ pos = [t \in Threads |-> 0]
    /\ resolved = [t \in Threads |-> FALSE]
    /\ response = [handler |-> "", request |-> <<>>, status |-> 0, body |-> <<>>]
    /\ seedLog = <<>>

\* The response a handler's outcome becomes: a returned value with the route's
\* status code, an HTTPException with its own.
Send(handler, request, out) ==
    response' = [handler |-> handler, request |-> request,
                 status |-> out.status, body |-> out.body]

InFlight(handler) == Cardinality({t \in Threads : pc[t] = handler})
NumCreated == Cardinality({k \in 1..Len(product) : WithoutId(product[k]) \in ProductInputs})
RECURSIVE Sum(_, _)
Sum(f, S) == IF S = {} THEN 0 ELSE LET x == CHOOSE y \in S : TRUE IN f[x] + Sum(f, S \ {x})
Cost(o) == 1 + Len(o.items)
Work ==
    NumCreated + Len(seedLog) + InFlight("seed_products")
        + Sum([k \in 1..Len(order) |-> Cost(order[k])], 1..Len(order))
        + Sum([t \in Threads |-> IF pc[t] = "create_order" THEN Cost(req[t]) ELSE 0], Threads)
Quiet == \A t \in Threads : pc[t] = "idle"

\* database.create_document(collection_name, data): the outcome; the document it
\* inserts is WithId(data, nextId)
create_document(data) ==
    IF ~db THEN Raise(DatabaseNotAvailable)
    ELSE Return(201, [id |-> str(nextId)])

\* Every item's product_id is the identifier of a document of coll.
Resolves(product_id, coll) ==
    LET oid == ObjectId(product_id)
    IN  oid # InvalidId /\ \E k \in 1..Len(coll) : coll[k]["_id"] = oid
AllResolve(o, coll) == \A k \in 1..Len(o.items) : Resolves(o.items[k].product_id, coll)

\* ------------------------------------------------------------- handlers
\* POST /api/products
create_product(t) ==
    /\ pc[t] = "idle"
    /\ Work < MaxWork
    /\ \E p \in ProductInputs :
        LET out == ExceptException(create_document(p)) IN
        /\ Send("create_product", p, out)
        /\ IF out.raised = "none"
           THEN product' = Append(product, WithId(p, nextId)) /\ nextId' = nextId + 1
           ELSE UNCHANGED <<product, nextId>>
    /\ UNCHANGED <<db, order, pc, req, pos, resolved, seedLog>>

\* the try body of list_products; the raise on an unavailable store is get_documents'
list_products_try(category, limit) ==
    IF ~db THEN Raise(DatabaseNotAvailable)
    ELSE LET filter_dict == IF category # "" THEN [category |-> category] ELSE <<>>
             docs == get_documents(product, filter_dict, limit)
         IN  Return(200, [docs |-> [k \in 1..Len(docs) |-> serialize_doc(docs[k])]])

\* GET /api/products
list_products(t) ==
    /\ pc[t] = "idle"
    /\ \E category \in Categories, limit \in Limits :
        Send("list_products", <<category, limit>>,
             ExceptException(list_products_try(category, limit)))
    /\ UNCHANGED <<db, product, order, nextId, pc, req, pos, resolved, seedLog>>

\* get_product without its `if db is None`, the lookup answering for the store
get_product_try_unguarded(product_id) ==
    IF ObjectId(product_id) = InvalidId THEN Raise(InvalidIdMessage(product_id))
    ELSE LET doc == find_one(product, ObjectId(product_id)) IN
         IF Falsy(doc) THEN HTTPException(404, ProductNotFound)
         ELSE Return(200, serialize_doc(doc))

\* the try body of get_product
get_product_try(product_id) ==
    IF ~db THEN Raise(DatabaseNotAvailable)
    ELSE IF ObjectId(product_id) = InvalidId THEN Raise(InvalidIdMessage(product_id))
    ELSE LET doc == find_one(product, ObjectId(product_id)) IN
         IF Falsy(doc) THEN HTTPException(404, ProductNotFound)
         ELSE Return(200, serialize_doc(doc))

\* get_product with `except Exception` alone, as the list handlers have it
get_product_except_generic(out) == ExceptException(out)

\* the except clauses of get_product
get_product_except(out) == ExceptHTTPException(out)

\* GET /api/products/{product_id}
get_product(t) ==
    /\ pc[t] = "idle"
    /\ \E product_id \in IdStrings :
        Send("get_product", product_id, get_product_except(get_product_try(product_id)))
    /\ UNCHANGED <<db, product, order, nextId, pc, req, pos, resolved, seedLog>>

\* the guard dropped: every seed call inserts
seed_guard_always(coll) == TRUE

\* the guard asking whether the dataset is there, not whether anything is
seed_guard_dataset(coll) ==
    \A k \in 1..Len(coll) : \A j \in 1..Len(SeedDataset) : WithoutId(coll[k]) # SeedDataset[j]

\* `if db["product"].count_documents({}) == 0`
seed_guard(coll) == count_documents(coll) = 0

LogSeed(out, was, now) ==
    seedLog' = Append(seedLog, [status |-> out.body.status, inserted |-> out.body.inserted,
                                before |-> was, after |-> now])

\* POST /api/seed-products, up to the count: the db check, the dataset, the guard;
\* a non-empty collection is answered at once
seed_products(t) ==
    /\ pc[t] = "idle"
    /\ Work < MaxWork
    /\ UNCHANGED <<db, product, order, nextId, req, pos, resolved>>
    /\ IF ~db
       THEN /\ Send("seed_products", <<>>, ExceptException(Raise(DatabaseNotAvailable)))
            /\ UNCHANGED <<pc, seedLog>>
       ELSE IF seed_guard(product)
       THEN /\ pc' = [pc EXCEPT ![t] = "seed_products"]
            /\ UNCHANGED <<response, seedLog>>
       ELSE LET out == Return(200, [inserted |-> 0, status |-> "already-seeded"]) IN
            /\ Send("seed_products", <<>>, out)
            /\ LogSeed(out, product, product')
            /\ UNCHANGED pc

\* the insert looking at the collection again, in the same step
seed_products_insert_atomic(t) ==
    /\ pc[t] = "seed_products"
    /\ LET out == IF seed_guard(product)
                  THEN Return(200, [inserted |-> Len(SeedDataset), status |-> "seeded"])
                  ELSE Return(200, [inserted |-> 0, status |-> "already-seeded"]) IN
        /\ product' = IF seed_guard(product) THEN insert_many(product, SeedDataset, nextId) ELSE product
        /\ nextId' = IF seed_guard(product) THEN nextId + Len(SeedDataset) ELSE nextId
        /\ Send("seed_products", <<>>, out)
        /\ LogSeed(out, product, product')
    /\ pc' = [pc EXCEPT ![t] = "idle"]
    /\ UNCHANGED <<db, order, req, pos, resolved>>

\* seed_products after the guard held: insert_many and the return
seed_products_insert(t) ==
    /\ pc[t] = "seed_products"
    /\ LET out == Return(200, [inserted |-> Len(SeedDataset), status |-> "seeded"]) IN
        /\ product' = insert_many(product, SeedDataset, nextId)
        /\ nextId' = nextId + Len(SeedDataset)
        /\ Send("seed_products", <<>>, out)
        /\ LogSeed(out, product, product')
    /\ pc' = [pc EXCEPT ![t] = "idle"]
    /\ UNCHANGED <<db, order, req, pos, resolved>>

\* POST /api/orders: the request arrives
create_order(t) ==
    /\ pc[t] = "idle"
    /\ \E o \in OrderInputs :
        /\ Cost(o) <= MaxWork - Work
        /\ req' = [req EXCEPT ![t] = o]
        /\ resolved' = [resolved EXCEPT ![t] = AllResolve(o, product)]
    /\ pc' = [pc EXCEPT ![t] = "create_order"]
    /\ pos' = [pos EXCEPT ![t] = 1]
    /\ UNCHANGED <<db, product, order, nextId, response, seedLog>>

\* the lookup made and its result not looked at
validate_item_unchecked(item) ==
    IF ~db THEN Raise(NoneTypeNotSubscriptable)
    ELSE IF ObjectId(item.product_id) = InvalidId
    THEN Raise(InvalidIdMessage(item.product_id))
    ELSE Continue

\* one pass of `for item in order.items`: the lookup and the `if not prod`
validate_item(item) ==
    IF ~db THEN Raise(NoneTypeNotSubscriptable)
    ELSE IF ObjectId(item.product_id) = InvalidId
    THEN Raise(InvalidIdMessage(item.product_id))
    ELSE IF Falsy(find_one(product, ObjectId(item.product_id)))
    THEN HTTPException(400, InvalidProductId(item.product_id))
    ELSE Continue

\* the except clauses of create_order
create_order_except(out) == ExceptHTTPException(out)

Finish(t) ==
    /\ pc' = [pc EXCEPT ![t] = "idle"]
    /\ req' = [req EXCEPT ![t] = NoRequest]
    /\ pos' = [pos EXCEPT ![t] = 0]
    /\ resolved' = [resolved EXCEPT ![t] = FALSE]

\* the order saved before its items are validated
create_order_item_saves(t) ==
    /\ pc[t] = "create_order"
    /\ pos[t] <= Len(req[t].items)
    /\ LET out == create_order_except(validate_item(req[t].items[pos[t]])) IN
        IF out.raised = "continue"
        THEN /\ pos' = [pos EXCEPT ![t] = pos[t] + 1]
             /\ UNCHANGED <<pc, req, resolved, response, order, nextId>>
        ELSE /\ Send("create_order", <<>>, out)
             /\ order' = IF db THEN Append(order, WithId(req[t], nextId)) ELSE order
             /\ nextId' = IF db THEN nextId + 1 ELSE nextId
             /\ Finish(t)
    /\ UNCHANGED <<db, product, seedLog>>

\* create_order: the next item of the loop
create_order_item(t) ==
    /\ pc[t] = "create_order"
    /\ pos[t] <= Len(req[t].items)
    /\ LET out == create_order_except(validate_item(req[t].items[pos[t]])) IN
        IF out.raised = "continue"
        THEN /\ pos' = [pos EXCEPT ![t] = pos[t] + 1]
             /\ UNCHANGED <<pc, req, resolved, response>>
        ELSE /\ Send("create_order", <<>>, out)
             /\ Finish(t)
    /\ UNCHANGED <<db, product, order, nextId, seedLog>>

\* an order without line items refused
create_order_insert_nonempty(t) ==
    /\ pc[t] = "create_order"
    /\ pos[t] > Len(req[t].items)
    /\ LET out == IF req[t].items = <<>>
                  THEN HTTPException(400, <<"Order has no items">>)
                  ELSE create_order_except(create_document(req[t])) IN
        /\ Send("create_order", <<>>, out)
        /\ IF out.raised = "none"
           THEN order' = Append(order, WithId(req[t], nextId)) /\ nextId' = nextId + 1
           ELSE UNCHANGED <<order, nextId>>
    /\ Finish(t)
    /\ UNCHANGED <<db, product, seedLog>>

\* create_order: the loop is over, create_document("order", order) and the return
create_order_insert(t) ==
    /\ pc[t] = "create_order"
    /\ pos[t] > Len(req[t].items)
    /\ LET out == create_order_except(create_document(req[t])) IN
        /\ Send("create_order", <<>>, out)
        /\ IF out.raised = "none"
           THEN order' = Append(order, WithId(req[t], nextId)) /\ nextId' = nextId + 1
           ELSE UNCHANGED <<order, nextId>>
    /\ Finish(t)
    /\ UNCHANGED <<db, product, seedLog>>

\* the try body of list_orders; the raise on an unavailable store is get_documents'
list_orders_try(limit) ==
    IF ~db THEN Raise(DatabaseNotAvailable)
    ELSE LET docs == get_documents(order, <<>>, limit)
         IN  Return(200, [docs |-> [k \in 1..Len(docs) |-> serialize_doc(docs[k])]])

\* GET /api/orders
list_orders(t) ==
    /\ pc[t] = "idle"
    /\ \E limit \in Limits :
        Send("list_orders", <<limit>>, ExceptException(list_orders_try(limit)))
    /\ UNCHANGED <<db, product, order, nextId, pc, req, pos, resolved, seedLog>>

\* ------------------------------------------------------- specifications
\* Requests overlap freely.
Next ==
    \E t \in Threads :
        \/ create_product(t)
        \/ list_products(t)
        \/ get_product(t)
        \/ seed_products(t)
        \/ seed_products_insert(t)
        \/ create_order(t)
        \/ create_order_item(t)
        \/ create_order_insert(t)
        \/ list_orders(t)

Spec == Init /\ [][Next]_vars

\* No concurrency: a request is taken up only when no other is being handled.
NextSeq ==
    \E t \in Threads :
        \/ Quiet /\ create_product(t)
        \/ Quiet /\ list_products(t)
        \/ Quiet /\ get_product(t)
        \/ Quiet /\ seed_products(t)
        \/ seed_products_insert(t)
        \/ Quiet /\ create_order(t)
        \/ create_order_item(t)
        \/ create_order_insert(t)
        \/ Quiet /\ list_orders(t)

SeqSpec == Init /\ [][NextSeq]_vars

\* ------------------------------------------------------------ properties
Fields(coll) == [k \in 1..Len(coll) |-> WithoutId(coll[k])]
Ids(coll) == {coll[k]["_id"] : k \in 1..Len(coll)}
IsPrefix(a, b) == Len(a) <= Len(b) /\ SubSeq(b, 1, Len(a)) = a
\* thread t takes a step of create_order
OrderStep(t) == pc[t] = "create_order" /\ (pc'[t] # pc[t] \/ pos'[t] # pos[t])

\* C1: without concurrency, when the product collection is empty before the first
\* seed call, the first call reports 'seeded' with count 4 (the dataset size) and
\* leaves exactly the dataset in the collection, and the second call reports
\* 'already-seeded' with count 0 and leaves the collection as it found it.
C1_SeedTwiceInsertsOnce ==
    (Len(seedLog) >= 1 /\ seedLog[1].before = <<>>) =>
        /\ seedLog[1].status = "seeded"
        /\ seedLog[1].inserted = 4
        /\ seedLog[1].inserted = Len(SeedDataset)
        /\ Fields(seedLog[1].after) = SeedDataset
        /\ Len(seedLog) >= 2 =>
            /\ seedLog[2].status = "already-seeded"
            /\ seedLog[2].inserted = 0
            /\ seedLog[2].after = seedLog[2].before
            /\ IsPrefix(seedLog[1].after, seedLog[2].after)

\* Two seed calls were answered, the first on an empty collection.
C1_Witness ==
    /\ Len(seedLog) = 2
    /\ seedLog[1].before = <<>>
    /\ seedLog[2].status = "already-seeded"
    /\ Fields(product) = SeedDataset

\* C6: the seed's check and its insert are separate steps: a seed request that saw
\* an empty collection inserts the whole dataset and reports 'seeded' whatever the
\* collection holds by then, so two overlapping seeds can both insert.
C6_SeedInsertsAfterStaleCheck ==
    [][\A t \in Threads :
          (pc[t] = "seed_products" /\ pc'[t] = "idle") =>
              /\ IsPrefix(product, product')
              /\ Len(product') = Len(product) + Len(SeedDataset)
              /\ Fields(SubSeq(product', Len(product) + 1, Len(product'))) = SeedDataset
              /\ response'.status = 200
              /\ response'.body.status = "seeded"
              /\ response'.body.inserted = Len(SeedDataset)]_vars

\* Both of two overlapping seeds reported 'seeded': two copies, 8 documents.
C6_Witness ==
    /\ Len(seedLog) = 2
    /\ seedLog[1].status = "seeded" /\ seedLog[2].status = "seeded"
    /\ seedLog[1].inserted = 4 /\ seedLog[2].inserted = 4
    /\ seedLog[2].before # <<>>
    /\ Len(product) = 8
    /\ Fields(product) = SeedDataset \o SeedDataset

\* C10: the seed guard looks at the whole product collection: without overlapping
\* requests, a seed call that finds the collection non-empty for any reason inserts
\* nothing and reports 'already-seeded'; the collection never shrinks, and the
\* dataset is inserted at most once in the run.
C10_Answered ==
    /\ \A k \in 1..Len(seedLog) :
          seedLog[k].before # <<>> =>
              /\ seedLog[k].status = "already-seeded"
              /\ seedLog[k].inserted = 0
              /\ seedLog[k].after = seedLog[k].before
    /\ Cardinality({k \in 1..Len(seedLog) : seedLog[k].status = "seeded"}) <= 1
    /\ \A j, k \in 1..Len(product) :
          (WithoutId(product[j]) = SeedDataset[1] /\ WithoutId(product[k]) = SeedDataset[1]) => j = k
C10_SeedGuardIsEmptiness ==
    /\ []C10_Answered
    /\ [][IsPrefix(product, product')]_vars

\* A seed call on a never-seeded store that holds one explicitly created product.
C10_Witness ==
    /\ Len(seedLog) = 1
    /\ seedLog[1].before = <<WithId(Mug, FirstId)>>
    /\ seedLog[1].status = "already-seeded"
    /\ product = <<WithId(Mug, FirstId)>>

\* C2: every persisted order has only line items whose product_id is the identifier
\* of a product in the product collection, under any interleaving of requests.
C2_OrdersReferenceProducts ==
    \A k \in 1..Len(order) : AllResolve(order[k], product)

\* An order with as many line items as a request may carry was persisted.
C2_Witness ==
    \E k \in 1..Len(order) : Len(order[k].items) = MaxItems /\ AllResolve(order[k], product)

\* C3: with the store available, a create-order request whose every product_id
\* resolved when it arrived (none, for an order without line items) ends with
\* exactly one new order document, the request's own, and answers 201 with that
\* document's identifier.
C3_ResolvableOrderSucceeds ==
    [][\A t \in Threads :
          (pc[t] = "create_order" /\ pc'[t] = "idle" /\ db /\ resolved[t]) =>
              /\ Len(order') = Len(order) + 1
              /\ IsPrefix(order, order')
              /\ WithoutId(order'[Len(order')]) = req[t]
              /\ order'[Len(order')]["_id"] \notin Ids(order) \cup Ids(product)
              /\ response'.handler = "create_order"
              /\ response'.status = 201
              /\ response'.body.id = str(order'[Len(order')]["_id"])
              /\ product' = product]_vars

\* An order without line items and an order with line items were both persisted.
C3_Witness ==
    /\ db
    /\ \E k \in 1..Len(order) : order[k].items = <<>>
    /\ \E k \in 1..Len(order) : Len(order[k].items) >= 1
    /\ response.handler = "create_order" /\ response.status = 201

\* C4: validation is fail-fast: with the store available, the first line item whose
\* product_id is malformed or resolves to no product ends the request at once with
\* 400 and the detail naming exactly that product_id.
C4_FirstBadItemIsInvalidReference ==
    [][\A t \in Threads :
          (/\ OrderStep(t)
           /\ db
           /\ pos[t] <= Len(req[t].items)
           /\ ~Resolves(req[t].items[pos[t]].product_id, product)) =>
              /\ pc'[t] = "idle"
              /\ response'.handler = "create_order"
              /\ response'.status = 400
              /\ response'.body.detail = InvalidProductId(req[t].items[pos[t]].product_id)]_vars

\* What the code does at the first bad item: the request ends at once either way,
\* with 400 naming the id when a well-formed id resolves to nothing, and with 500
\* carrying ObjectId's own message when the id is malformed.
FirstBadItemEndsRequest ==
    [][\A t \in Threads :
          (/\ OrderStep(t)
           /\ db
           /\ pos[t] <= Len(req[t].items)
           /\ ~Resolves(req[t].items[pos[t]].product_id, product)) =>
              LET product_id == req[t].items[pos[t]].product_id IN
              /\ pc'[t] = "idle"
              /\ response'.handler = "create_order"
              /\ UNCHANGED <<product, order>>
              /\ IF ObjectId(product_id) = InvalidId
                 THEN /\ response'.status = 500
                      /\ response'.body.detail = InvalidIdMessage(product_id)
                 ELSE /\ response'.status = 400
                      /\ response'.body.detail = InvalidProductId(product_id)]_vars

\* C5: validation writes nothing: no step of create-order changes the product
\* collection, a step that ends the request with an error leaves the order
\* collection alone, and an order is inserted only by the step after the last item,
\* when every item has resolved.
C5_ValidationWritesNothing ==
    [][\A t \in Threads :
          OrderStep(t) =>
              /\ product' = product
              /\ (pc'[t] = "idle" /\ response'.status # 201) => order' = order
              /\ pc'[t] # "idle" => order' = order
              /\ order' # order =>
                    /\ pos[t] > Len(req[t].items)
                    /\ AllResolve(req[t], product)
                    /\ order' = Append(order, order'[Len(order')])]_vars

\* A create-order request was refused while both collections held documents.
C5_Witness ==
    /\ response.handler = "create_order"
    /\ response.status \in {400, 500}
    /\ Len(product) >= 1
    /\ Len(order) >= 1

\* C7: with the store unavailable nothing is read or written and every answer is an
\* error: both collections stay as they were, no identifier is handed out, no seed
\* gets past its check, no order gets past its first item, and every response is 500.
C7_UnavailableStoreFailsFast ==
    ~db =>
        /\ product = <<>> /\ order = <<>> /\ nextId = FirstId /\ seedLog = <<>>
        /\ \A t \in Threads : pc[t] # "seed_products" /\ pos[t] <= 1
        /\ response.handler # "" =>
              /\ response.status = 500
              /\ "detail" \in DOMAIN response.body

\* An order without line items was refused because the store is unavailable.
C7_Witness ==
    /\ ~db
    /\ response.handler = "create_order"
    /\ response.status = 500
    /\ response.body.detail = DatabaseNotAvailable

\* C8: identifiers are unique over both collections and never handed out again;
\* documents, once inserted, never change; a successful create-product returns the
\* identifier of the document it inserted; and get-by-id with a product's identifier
\* returns that product: its fields, and a public id equal to the identifier.
C8_IdsUnique ==
    /\ Ids(product) \cap Ids(order) = {}
    /\ Cardinality(Ids(product)) = Len(product)
    /\ Cardinality(Ids(order)) = Len(order)
    /\ \A x \in Ids(product) \cup Ids(order) : FirstId <= x /\ x < nextId
C8_GetReturnsInserted ==
    db => \A k \in 1..Len(product) :
        LET doc == product[k]
            got == get_product_except(get_product_try(str(doc["_id"])))
        IN  /\ got.raised = "none"
            /\ got.status = 200
            /\ DOMAIN got.body = DOMAIN WithoutId(doc) \cup {"id"}
            /\ got.body["id"] = str(doc["_id"])
            /\ ObjectId(got.body["id"]) = doc["_id"]
            /\ \A f \in DOMAIN WithoutId(doc) : got.body[f] = doc[f]
C8_CreateReturnsItsId ==
    (response'.handler = "create_product" /\ response'.status = 201 /\ product' # product) =>
        /\ product' = Append(product, product'[Len(product')])
        /\ WithoutId(product'[Len(product')]) = response'.request
        /\ response'.body.id = str(product'[Len(product')]["_id"])
        /\ product'[Len(product')]["_id"] \notin Ids(product) \cup Ids(order)
C8_InsertRoundTrip ==
    /\ [](C8_IdsUnique /\ C8_GetReturnsInserted)
    /\ [][IsPrefix(product, product') /\ IsPrefix(order, order') /\ C8_CreateReturnsItsId]_vars

\* A get-by-id returned the explicitly created product after an order was stored.
C8_Witness ==
    /\ Len(order) >= 1
    /\ \E k \in 1..Len(product) :
          /\ WithoutId(product[k]) = Mug
          /\ response.handler = "get_product"
          /\ response.status = 200
          /\ response.body["id"] = str(product[k]["_id"])
          /\ response.body.title = "Mug"

\* C9: get-product-by-id has three outcomes that are never confused: a well-formed
\* id (IdLen hex digits, either case) of a product returns 200 and the serialized
\* product; a well-formed id of no product returns 404; a malformed id or an
\* unavailable store returns 500.
HexChars == {HexDigits[k] : k \in 1..16} \cup {UpperHexDigits[k] : k \in 1..16}
WellFormed(s) == Len(s) = IdLen /\ \A k \in 1..Len(s) : s[k] \in HexChars
SameDigits(a, b) ==
    /\ Len(a) = Len(b)
    /\ \A k \in 1..Len(a) : \E d \in 1..16 : a[k] \in {HexDigits[d], UpperHexDigits[d]} /\ b[k] = HexDigits[d]
C9_GetProductOutcomes ==
    [][(response'.handler = "get_product" /\ response' # response) =>
          LET s == response'.request
              hits == {k \in 1..Len(product) : SameDigits(s, str(product[k]["_id"]))}
          IN  IF ~db \/ ~WellFormed(s)
              THEN response'.status = 500
              ELSE IF hits # {}
              THEN /\ response'.status = 200
                   /\ \E k \in hits :
                         /\ response'.body["id"] = str(product[k]["_id"])
                         /\ "_id" \notin DOMAIN response'.body
                         /\ \A f \in DOMAIN WithoutId(product[k]) : response'.body[f] = product[k][f]
              ELSE /\ response'.status = 404
                   /\ response'.body.detail = ProductNotFound]_vars

\* A well-formed id missed while the collection held products, and the answer is 404.
C9_Witness ==
    /\ db
    /\ Len(product) >= 1
    /\ response.handler = "get_product"
    /\ response.status = 404
    /\ WellFormed(response.request)

=============================================================================
